---- MODULE Spec2Model ----
(***************************************************************************)
(* Model of the Octowire host library: the protocol engine                 *)
(* (src/octowire/octowire.py, class Octowire) and the GPIO driver          *)
(* (src/octowire/gpio.py, class GPIO), run against a byte-level model of   *)
(* the serial transport and of the device behind it.                       *)
(*                                                                         *)
(* Every library call is blocking and single-threaded, so one call is one  *)
(* action.  A call is computed by operators that thread a "world" record   *)
(* (transport, device, driver object and the call's I/O log) through the   *)
(* code's statements and return a result record [w, exc, tag, val, data,   *)
(* num].                                                                   *)
(*                                                                         *)
(* Python values: bytes are sequences of 0..255; True/False/None and the   *)
(* mode letters are the strings "True", "False", "None", "t", "b"; the     *)
(* integer caches of the GPIO driver use NONE for Python's None.           *)
(***************************************************************************)
EXTENDS Integers, Sequences, FiniteSets, TLC

VARIABLES
    handle,     \* serial_instance: "open", "closed" (a Serial, not open), "not_serial"
    dev_mode,   \* the mode the device is in: "t" or "b"
    dev_rx,     \* bytes of an incomplete frame held by the device
    in_buf,     \* bytes waiting in the transport's receive buffer
    timeout,    \* serial_instance.timeout
    gpio,       \* the GPIO driver object
    pc,         \* "idle", or "returned" while the caller holds a call's result
    res,        \* the last call: its name, argument and outcome
    io,         \* the last call's writes and reads, in order
    prev,       \* "ensure_binary_mode" when the call before was one that returned True
    rd,         \* the chunked stream handed to a call of _read_data
    toggles     \* the successful toggles made on a fresh driver and nothing else
                \* since, NONE once anything else was called on it

vars == << handle, dev_mode, dev_rx, in_buf, timeout, gpio, pc, res, io, prev, rd, toggles >>

(***************************************************************************)
(* Bounds of the model.                                                    *)
(***************************************************************************)
\* pin ids tried at construction: (0 - PinMargin) .. (15 + PinMargin)
PinMargin == 1
\* a device fault can hit the 1st .. MaxFaultAt-th frame of a call
MaxFaultAt == 3
\* chunked streams handed to read_data: at most MaxChunks chunks
MaxChunks == 2
\* ... each declaring at most MaxChunkSize bytes
MaxChunkSize == 6
\* ... read with an expected size of at most MaxExpected
MaxExpected == 10
\* runs of toggles on a fresh driver are counted up to MaxToggles
MaxToggles == 3
\* read timeouts tried with _read_response_code: None and 0 .. MaxTimeout
MaxTimeout == 2
\* ... on a receive buffer holding up to MaxWaiting bytes
MaxWaiting == 2

(***************************************************************************)
(* Bytes.                                                                  *)
(***************************************************************************)
\* struct.pack("<L", n)
LE32(n) == << n % 256, (n \div 256) % 256, (n \div 65536) % 256, (n \div 16777216) % 256 >>

\* struct.pack("<H", n)
LE16(n) == << n % 256, (n \div 256) % 256 >>

\* int.from_bytes(bs, byteorder='little'); also struct.unpack("<L", bs)[0] when Len(bs) = 4
RECURSIVE FromLE(_)
FromLE(bs) == IF bs = <<>> THEN 0 ELSE bs[1] + 256 * FromLE(Tail(bs))

Take(bs, n) == SubSeq(bs, 1, IF n < Len(bs) THEN n ELSE Len(bs))

Drop(bs, n) == SubSeq(bs, (IF n < Len(bs) THEN n ELSE Len(bs)) + 1, Len(bs))

\* Python's `needle in haystack` on strings
Contains(needle, hay) ==
    \E i \in 0..(Len(hay) - Len(needle)) : SubSeq(hay, i + 1, i + Len(needle)) = needle

(***************************************************************************)
(* Literals of the source.                                                 *)
(***************************************************************************)
\* b"\x0a"
ProbeByte == << 10 >>

\* (mutant) nine zero bytes
SentinelNine == << 0, 2, 0, 0, 0, 0, 0, 0, 0, 0, 0 >>

\* b"\x00\x02" + 10 * b"\x00"
Sentinel == << 0, 2, 0, 0, 0, 0, 0, 0, 0, 0, 0, 0 >>

\* b"binmode\n"
BinmodeOpcode == << 98, 105, 110, 109, 111, 100, 101, 10 >>

\* b"\x00\x00\x02"
VersionOpcode == << 0, 0, 2 >>

\* "Octowire"
Ident == << 79, 99, 116, 111, 119, 105, 114, 101 >>

\* GPIO.OPCODE and the operation codes
OPCODE == 8
OPERATION_OUTPUT == 1
OPERATION_INPUT == 2
OPERATION_PULLUP == 3
OPERATION_PULLDOWN == 4
OPERATION_DEACTIVATE_PULL == 5
OPERATION_SET_PIN_HIGH == 6
OPERATION_SET_PIN_LOW == 7
OPERATION_READ_PIN == 8

\* GPIO.PULL_UP, GPIO.PULL_DOWN; NONE stands for Python's None (PULL_DISABLE)
PULL_UP == 0
PULL_DOWN == 1
NONE == -1

(***************************************************************************)
(* Results of a (sub)call.                                                 *)
(***************************************************************************)
\* a normal return: val names the Python value ("None", "True", "False", "t", "b",
\* "bytes", "str", "int"), data holds its bytes or characters, num its integer
Ok(w, v, d) == [w |-> w, exc |-> "none", tag |-> "", val |-> v, data |-> d, num |-> 0]

OkInt(w, n) == [w |-> w, exc |-> "none", tag |-> "", val |-> "int", data |-> <<>>, num |-> n]

\* a raised exception of class e; t is the operation name its message carries
Raise(w, e, t) == [w |-> w, exc |-> e, tag |-> t, val |-> "None", data |-> <<>>, num |-> 0]

(***************************************************************************)
(* The device and the transport (external collaborators).                  *)
(*                                                                         *)
(* Text mode echoes what it receives and switches to binary mode on the    *)
(* line "binmode" when it accepts the switch.  Binary mode stays silent    *)
(* until a frame u16le(args_size) | opcode | args is complete and then     *)
(* answers it: opcode 2 with status 0 and the version as one chunk, a GPIO *)
(* frame with status 0 (and the pin level after a read), anything else     *)
(* with status 1.  The w.fat-th frame of the call is answered as the fault *)
(* w.fk says instead.                                                      *)
(***************************************************************************)
VersionGood == Ident \o << 32, 49 >>

VersionOther == << 66, 80 >>

VersionInvalid == << 255 >>

Versions == { VersionGood, VersionOther, VersionInvalid }

FaultKinds == { "status_err", "silent", "no_payload", "zero_size", "short_size", "short_chunk" }

DevNormalResponse(w, opcode, args) ==
    IF opcode = 2 THEN << 0 >> \o LE32(Len(w.ver)) \o w.ver
    ELSE IF opcode = OPCODE /\ Len(args) = 2 /\ args[1] \in 0..15 /\ args[2] \in 1..7 THEN << 0 >>
    ELSE IF opcode = OPCODE /\ Len(args) = 2 /\ args[1] \in 0..15 /\ args[2] = OPERATION_READ_PIN
         THEN << 0, w.level >>
    ELSE << 1 >>

DevFaultResponse(w, opcode, args) ==
    CASE w.fk = "status_err" -> << 1 >>
      [] w.fk = "silent" -> << >>
      [] w.fk = "no_payload" -> << 0 >>
      [] w.fk = "zero_size" -> IF opcode = 2 THEN << 0 >> \o LE32(0) ELSE << 0 >>
      [] w.fk = "short_size" -> IF opcode = 2 THEN << 0, Len(w.ver) >> ELSE << 0 >>
      [] w.fk = "short_chunk" ->
            IF opcode = 2 THEN << 0 >> \o LE32(Len(w.ver)) \o Take(w.ver, 1) ELSE << 0 >>
      [] OTHER -> DevNormalResponse(w, opcode, args)

DevRespond(w, opcode, args) ==
    LET faulty == w.fat = 1
        resp == IF faulty THEN DevFaultResponse(w, opcode, args)
                ELSE DevNormalResponse(w, opcode, args)
    IN [w EXCEPT !.in_buf = @ \o resp,
                 !.fat = IF @ > 0 THEN @ - 1 ELSE 0,
                 !.nfault = IF faulty THEN @ + 1 ELSE @]

RECURSIVE DevConsume(_)
DevConsume(w) ==
    LET b == w.dev_rx IN
    IF Len(b) < 3 THEN w
    ELSE LET asz == FromLE(Take(b, 2)) IN
         IF Len(b) < 3 + asz THEN w
         ELSE DevConsume(DevRespond([w EXCEPT !.dev_rx = Drop(b, 3 + asz)],
                                    b[3], SubSeq(b, 4, 3 + asz)))

DevReceive(w, data) ==
    IF w.mode = "t"
    THEN [w EXCEPT !.in_buf = @ \o data,
                   !.mode = IF data = BinmodeOpcode /\ w.accept THEN "b" ELSE "t"]
    ELSE DevConsume([w EXCEPT !.dev_rx = @ \o data])

\* what serial_instance.<anything> raises when the handle cannot do I/O
HandleError(w) == IF w.handle = "not_serial" THEN "AttributeError" ELSE "SerialException"

\* serial_instance.write(data)
SerialWrite(w, data) ==
    IF w.handle # "open" THEN Raise(w, HandleError(w), "write")
    ELSE Ok(DevReceive([w EXCEPT !.io = Append(@, [k |-> "w", data |-> data, mode |-> w.mode])],
                       data),
            "None", <<>>)

\* serial_instance.read(n): what is there, at most n bytes (fewer on timeout)
SerialRead(w, n) ==
    IF w.handle # "open" THEN Raise(w, HandleError(w), "read")
    ELSE Ok([w EXCEPT !.in_buf = Drop(@, n),
                      !.io = Append(@, [k |-> "r", data |-> Take(w.in_buf, n), mode |-> w.mode])],
            "bytes", Take(w.in_buf, n))

\* serial_instance.in_waiting
InWaiting(w) == Len(w.in_buf)

(***************************************************************************)
(* The protocol engine, class Octowire.                                    *)
(***************************************************************************)
\* statement sequencing: an exception raised by r propagates, otherwise the
\* rest of the code, K, runs on r
Bind(r, K(_)) == IF r.exc # "none" THEN r ELSE K(r)

\* (mutant) the timeout is not put back after the read
read_response_code_no_restore(w, operation_name, disable_timeout) ==
    Bind(SerialRead(IF disable_timeout THEN [w EXCEPT !.timeout = NONE] ELSE w, 1),
         LAMBDA status :
            IF status.data # << 0 >>
            THEN Raise(status.w, "Exception", operation_name)
            ELSE Ok(status.w, "None", <<>>))

\* Octowire._read_response_code; a read that raises leaves the timeout as set
read_response_code(w, operation_name, disable_timeout) ==
    Bind(SerialRead(IF disable_timeout THEN [w EXCEPT !.timeout = NONE] ELSE w, 1),
         LAMBDA status :
            IF status.data # << 0 >>
            THEN Raise([status.w EXCEPT !.timeout = w.timeout], "Exception", operation_name)
            ELSE Ok([status.w EXCEPT !.timeout = w.timeout], "None", <<>>))

\* Octowire._get_size_read_data
get_size_read_data(w, operation_name) ==
    Bind(SerialRead(w, 4),
         LAMBDA resp :
            IF resp.data = <<>> THEN Raise(resp.w, "Exception", operation_name)
            ELSE IF Len(resp.data) # 4 THEN Raise(resp.w, "struct.error", "")
            ELSE OkInt(resp.w, FromLE(resp.data)))

\* (mutant) an empty chunk is taken like any other
read_chunk_takes_empty(w, chunk_size, operation_name) == SerialRead(w, chunk_size)

\* Octowire._read_chunk
read_chunk(w, chunk_size, operation_name) ==
    Bind(SerialRead(w, chunk_size),
         LAMBDA chunk :
            IF chunk.data = <<>> THEN Raise(chunk.w, "Exception", operation_name)
            ELSE chunk)

\* (mutant) `>=` for `>` in the loop test
RECURSIVE read_data_loop_ge(_, _, _, _)
read_data_loop_ge(w, expected_size, data, operation_name) ==
    IF expected_size >= 0
    THEN Bind(get_size_read_data(w, operation_name),
              LAMBDA size :
                 Bind(read_chunk(size.w, size.num, operation_name),
                      LAMBDA chunk :
                         read_data_loop_ge(chunk.w, expected_size - size.num,
                                           data \o chunk.data, operation_name)))
    ELSE Ok(w, "bytes", data)

\* the while loop of Octowire._read_data
RECURSIVE read_data_loop(_, _, _, _)
read_data_loop(w, expected_size, data, operation_name) ==
    IF expected_size > 0
    THEN Bind(get_size_read_data(w, operation_name),
              LAMBDA size :
                 Bind(read_chunk(size.w, size.num, operation_name),
                      LAMBDA chunk :
                         read_data_loop(chunk.w, expected_size - size.num,
                                        data \o chunk.data, operation_name)))
    ELSE Ok(w, "bytes", data)

\* Octowire._read_data; expected_size is NONE or an integer >= 0
read_data(w, expected_size, operation_name) ==
    IF expected_size # NONE /\ expected_size # 0
    THEN read_data_loop(w, expected_size, <<>>, operation_name)
    ELSE Bind(get_size_read_data(w, operation_name),
              LAMBDA size : read_chunk(size.w, size.num, operation_name))

\* the value detect_current_mode returns, noted in the call's list of probes
Probed(w, m) == Ok([w EXCEPT !.probes = Append(@, m)], m, <<>>)

\* (mutant) Binary is answered on the status byte, the payload left unread
detect_current_mode_no_payload(w) ==
    Bind(SerialWrite(w, ProbeByte),
         LAMBDA probe :
            IF InWaiting(probe.w) > 0
            THEN Bind(SerialRead(probe.w, InWaiting(probe.w)),
                      LAMBDA echo : Probed(echo.w, "t"))
            ELSE Bind(SerialWrite(probe.w, Sentinel),
                      LAMBDA term :
                         Bind(read_response_code(term.w, "Detect current mode", FALSE),
                              LAMBDA code : Probed(code.w, "b"))))

\* (mutant) the probe byte and the sentinel go out in one write
detect_current_mode_one_write(w) ==
    Bind(SerialWrite(w, ProbeByte \o Sentinel),
         LAMBDA probe :
            IF InWaiting(probe.w) > 0
            THEN Bind(SerialRead(probe.w, InWaiting(probe.w)),
                      LAMBDA echo : Probed(echo.w, "t"))
            ELSE Bind(read_response_code(probe.w, "Detect current mode", FALSE),
                      LAMBDA code :
                         Bind(read_data(code.w, NONE, "Detect current mode"),
                              LAMBDA payload : Probed(payload.w, "b"))))

\* Octowire.detect_current_mode
detect_current_mode(w) ==
    Bind(SerialWrite(w, ProbeByte),
         LAMBDA probe :
            IF InWaiting(probe.w) > 0
            THEN Bind(SerialRead(probe.w, InWaiting(probe.w)),
                      LAMBDA echo : Probed(echo.w, "t"))
            ELSE Bind(SerialWrite(probe.w, Sentinel),
                      LAMBDA term :
                         Bind(read_response_code(term.w, "Detect current mode", FALSE),
                              LAMBDA code :
                                 Bind(read_data(code.w, NONE, "Detect current mode"),
                                      LAMBDA payload : Probed(payload.w, "b")))))

\* bytes.decode(): UTF-8; the bytes 0..127 are their own characters and the
\* bytes 248..255 occur in no UTF-8 text (the model draws no other byte)
Decode(w, bs) ==
    IF \E i \in 1..Len(bs) : bs[i] >= 128 THEN Raise(w, "UnicodeDecodeError", "")
    ELSE Ok(w, "str", bs)

\* get_octowire_version from the write of the version frame on
version_query(w) ==
    Bind(SerialWrite(w, VersionOpcode),
         LAMBDA sent :
            Bind(SerialRead(sent.w, 1),
                 LAMBDA status :
                    IF status.data = << 0 >>
                    THEN Bind(SerialRead(status.w, 4),
                              LAMBDA size :
                                 IF FromLE(size.data) > 0
                                 THEN IF Len(size.data) # 4
                                      THEN Raise(size.w, "struct.error", "")
                                      ELSE Bind(SerialRead(size.w, FromLE(size.data)),
                                                LAMBDA version :
                                                   Decode(version.w, version.data))
                                 ELSE Ok(size.w, "None", <<>>))
                    ELSE Ok(status.w, "None", <<>>)))

\* (mutant) the outer check as a call that queries the device
is_connected_attr_called(w) ==
    Bind(version_query(w), LAMBDA version : Ok(version.w, "True", <<>>))

\* `self.is_connected` in ensure_binary_mode: the method is not called, and a
\* bound method object is always true
is_connected_attr(w) == Ok(w, "True", <<>>)

\* (mutant) the echo of "binmode" is left in the receive buffer
ensure_binary_mode_no_drain(w) ==
    Bind(detect_current_mode(w),
         LAMBDA current_mode :
            IF current_mode.val = "t"
            THEN Bind(SerialWrite(current_mode.w, BinmodeOpcode),
                      LAMBDA sent :
                         Bind(detect_current_mode(sent.w),
                              LAMBDA again :
                                 IF again.val = "b" THEN Ok(again.w, "True", <<>>)
                                 ELSE Ok(again.w, "False", <<>>)))
            ELSE Ok(current_mode.w, "True", <<>>))

\* Octowire.ensure_binary_mode
ensure_binary_mode(w) ==
    Bind(is_connected_attr(w),
         LAMBDA connected :
            IF connected.val = "True"
            THEN Bind(detect_current_mode(connected.w),
                      LAMBDA current_mode :
                         IF current_mode.val = "t"
                         THEN Bind(SerialWrite(current_mode.w, BinmodeOpcode),
                                   LAMBDA sent :
                                      Bind(SerialRead(sent.w, InWaiting(sent.w)),
                                           LAMBDA echo :
                                              Bind(detect_current_mode(echo.w),
                                                   LAMBDA again :
                                                      IF again.val = "b"
                                                      THEN Ok(again.w, "True", <<>>)
                                                      ELSE Ok(again.w, "False", <<>>))))
                         ELSE IF current_mode.val = "b"
                         THEN Ok(current_mode.w, "True", <<>>)
                         ELSE Ok(current_mode.w, "False", <<>>))
            ELSE Ok(connected.w, "None", <<>>))

\* Octowire._is_serial_instance
is_serial_instance(w) == w.handle \in { "open", "closed" }

\* Octowire.octowire_status_is_valid
octowire_status_is_valid(w) ==
    IF is_serial_instance(w)
    THEN Bind(detect_current_mode(w),
              LAMBDA octowire_mode :
                 IF octowire_mode.val # "None" THEN Ok(octowire_mode.w, "True", <<>>)
                 ELSE Ok(octowire_mode.w, "False", <<>>))
    ELSE Ok(w, "False", <<>>)

\* Octowire.get_octowire_version
get_octowire_version(w) ==
    Bind(octowire_status_is_valid(w),
         LAMBDA valid :
            IF valid.val = "True"
            THEN Bind(detect_current_mode(valid.w),
                      LAMBDA mode :
                         IF mode.val = "t"
                         THEN Bind(ensure_binary_mode(mode.w),
                                   LAMBDA ensured : version_query(ensured.w))
                         ELSE version_query(mode.w))
            ELSE Ok(valid.w, "None", <<>>))

\* Octowire.is_connected; `"Octowire" in None` raises TypeError
is_connected(w) ==
    IF is_serial_instance(w)
    THEN IF w.handle = "open"
         THEN Bind(get_octowire_version(w),
                   LAMBDA version :
                      IF version.val # "str" THEN Raise(version.w, "TypeError", "")
                      ELSE IF Contains(Ident, version.data) THEN Ok(version.w, "True", <<>>)
                      ELSE Ok(version.w, "False", <<>>))
         ELSE Ok(w, "False", <<>>)
    ELSE Ok(w, "False", <<>>)

(***************************************************************************)
(* The GPIO driver, class GPIO.  w.g is the driver object: gpio_pin and    *)
(* the three caches.                                                       *)
(***************************************************************************)
NoGPIO == [exists |-> FALSE, gpio_pin |-> 0, direction_status |-> NONE,
           pull_status |-> NONE, pin_status |-> 0]

\* (mutant) `or` for `and`
pin_rejected_or(gpio_pin) == (gpio_pin = 0) \/ (gpio_pin \notin { 0, 15 })

\* `not gpio_pin and gpio_pin not in [0, 15]` for an integer gpio_pin
pin_rejected(gpio_pin) == (gpio_pin = 0) /\ (gpio_pin \notin { 0, 15 })

\* GPIO.__init__; when it raises, no new object exists and w.g stays
gpio_init(w, gpio_pin) ==
    IF pin_rejected(gpio_pin) THEN Raise(w, "ValueError", "gpio_pin")
    ELSE Bind(ensure_binary_mode(w),
              LAMBDA ensured :
                 IF ensured.val # "True" THEN Raise(ensured.w, "ValueError", "binary mode")
                 ELSE Ok([ensured.w EXCEPT !.g = [exists |-> TRUE, gpio_pin |-> gpio_pin,
                                                  direction_status |-> NONE,
                                                  pull_status |-> NONE, pin_status |-> 0]],
                         "None", <<>>))

\* GPIO._send_operation_code; bytes([gpio_pin]) needs 0 <= gpio_pin < 256
send_operation_code(w, operation_code, operation_name) ==
    IF w.g.gpio_pin \notin 0..255 THEN Raise(w, "ValueError", "bytes")
    ELSE Bind(SerialWrite(w, LE16(2) \o << OPCODE, w.g.gpio_pin, operation_code >>),
              LAMBDA sent : read_response_code(sent.w, operation_name, FALSE))

\* (mutant) the cache is written before the command is sent
direction_cache_first(w, value) ==
    IF value \notin { 0, 1 } THEN Raise(w, "ValueError", "direction")
    ELSE IF value = 0
    THEN send_operation_code([w EXCEPT !.g.direction_status = 1],
                             OPERATION_OUTPUT, "set GPIO pin as output")
    ELSE send_operation_code([w EXCEPT !.g.direction_status = 0],
                             OPERATION_INPUT, "set GPIO pin as input")

\* (mutant) the cache takes the value given, not its inverse
direction_as_given(w, value) ==
    IF value \notin { 0, 1 } THEN Raise(w, "ValueError", "direction")
    ELSE IF value = 0
    THEN Bind(send_operation_code(w, OPERATION_OUTPUT, "set GPIO pin as output"),
              LAMBDA sent : Ok([sent.w EXCEPT !.g.direction_status = 0], "None", <<>>))
    ELSE Bind(send_operation_code(w, OPERATION_INPUT, "set GPIO pin as input"),
              LAMBDA sent : Ok([sent.w EXCEPT !.g.direction_status = 1], "None", <<>>))

\* GPIO.direction (setter)
direction(w, value) ==
    IF value \notin { 0, 1 } THEN Raise(w, "ValueError", "direction")
    ELSE IF value = 0
    THEN Bind(send_operation_code(w, OPERATION_OUTPUT, "set GPIO pin as output"),
              LAMBDA sent : Ok([sent.w EXCEPT !.g.direction_status = 1], "None", <<>>))
    ELSE Bind(send_operation_code(w, OPERATION_INPUT, "set GPIO pin as input"),
              LAMBDA sent : Ok([sent.w EXCEPT !.g.direction_status = 0], "None", <<>>))

\* (mutant) the first test is `not value`, which 0 passes as well as None
pull_not_value(w, value) ==
    IF value \notin { PULL_UP, PULL_DOWN, NONE } THEN Raise(w, "ValueError", "pull")
    ELSE Bind(IF value = NONE \/ value = 0
              THEN Bind(send_operation_code(w, OPERATION_DEACTIVATE_PULL, "GPIO pull disable"),
                        LAMBDA sent : Ok([sent.w EXCEPT !.g.pull_status = NONE], "None", <<>>))
              ELSE Ok(w, "None", <<>>),
              LAMBDA s1 :
                 Bind(IF value = 0
                      THEN Bind(send_operation_code(s1.w, OPERATION_PULLUP, "GPIO set pull-up"),
                                LAMBDA sent :
                                   Ok([sent.w EXCEPT !.g.pull_status = 0], "None", <<>>))
                      ELSE s1,
                      LAMBDA s2 :
                         IF value = 1
                         THEN Bind(send_operation_code(s2.w, OPERATION_PULLDOWN,
                                                       "GPIO set pull-down"),
                                   LAMBDA sent :
                                      Ok([sent.w EXCEPT !.g.pull_status = 1], "None", <<>>))
                         ELSE s2))

\* GPIO.pull (setter): three `if`s in a row
pull(w, value) ==
    IF value \notin { PULL_UP, PULL_DOWN, NONE } THEN Raise(w, "ValueError", "pull")
    ELSE Bind(IF value = NONE
              THEN Bind(send_operation_code(w, OPERATION_DEACTIVATE_PULL, "GPIO pull disable"),
                        LAMBDA sent : Ok([sent.w EXCEPT !.g.pull_status = NONE], "None", <<>>))
              ELSE Ok(w, "None", <<>>),
              LAMBDA s1 :
                 Bind(IF value = 0
                      THEN Bind(send_operation_code(s1.w, OPERATION_PULLUP, "GPIO set pull-up"),
                                LAMBDA sent :
                                   Ok([sent.w EXCEPT !.g.pull_status = 0], "None", <<>>))
                      ELSE s1,
                      LAMBDA s2 :
                         IF value = 1
                         THEN Bind(send_operation_code(s2.w, OPERATION_PULLDOWN,
                                                       "GPIO set pull-down"),
                                   LAMBDA sent :
                                      Ok([sent.w EXCEPT !.g.pull_status = 1], "None", <<>>))
                         ELSE s2))

\* GPIO._set_output_pin_high
set_output_pin_high(w) ==
    Bind(send_operation_code(w, OPERATION_SET_PIN_HIGH, "Set GPIO pin to high"),
         LAMBDA sent : Ok([sent.w EXCEPT !.g.pin_status = 1], "None", <<>>))

\* GPIO._set_output_pin_low
set_output_pin_low(w) ==
    Bind(send_operation_code(w, OPERATION_SET_PIN_LOW, "Set GPIO pin to low"),
         LAMBDA sent : Ok([sent.w EXCEPT !.g.pin_status = 0], "None", <<>>))

\* (mutant) no test of the value: whatever is not 0 sets the pin high
status_unchecked(w, value) ==
    IF value = 0 THEN set_output_pin_low(w)
    ELSE set_output_pin_high(w)

\* GPIO.status (setter)
status(w, value) ==
    IF value \notin { 0, 1 } THEN Raise(w, "ValueError", "status")
    ELSE IF value = 0 THEN set_output_pin_low(w)
    ELSE set_output_pin_high(w)

\* (mutant) the pin is set to the level it has
toggle_same(w) == status(w, IF w.g.pin_status = 0 THEN 0 ELSE 1)

\* GPIO.toggle
toggle(w) == status(w, IF w.g.pin_status = 0 THEN 1 ELSE 0)

\* (mutant) the byte that follows the status byte is left unread
read_status_only(w) ==
    Bind(send_operation_code(w, OPERATION_READ_PIN, "GPIO read input pin"),
         LAMBDA sent : Ok(sent.w, "bytes", <<>>))

\* GPIO.read
read(w) ==
    Bind(send_operation_code(w, OPERATION_READ_PIN, "GPIO read input pin"),
         LAMBDA sent : SerialRead(sent.w, 1))

(***************************************************************************)
(* The state machine.  A call is one step, taken when the caller is idle;  *)
(* it leaves its result in res and io, and Return hands control back.  A   *)
(* call takes the device's behaviour during the call as its script: which  *)
(* frame it answers wrongly and how (fk, fat), whether it accepts          *)
(* "binmode", the version it reports and the level of the pin.             *)
(***************************************************************************)
Faults(n) == { [fk |-> "none", fat |-> 0] } \cup [fk : FaultKinds, fat : 1..n]

PinIds == (0 - PinMargin)..(15 + PinMargin)

\* values handed to the setters: the legal ones and an illegal one
SetterValues == { NONE, 0, 1, 2 }

\* the world a call starts in
World(f, accept, ver, level) ==
    [handle |-> handle, mode |-> dev_mode, dev_rx |-> dev_rx, in_buf |-> in_buf,
     timeout |-> timeout, g |-> gpio, io |-> <<>>, probes |-> <<>>, nfault |-> 0,
     fk |-> f.fk, fat |-> f.fat, accept |-> accept, ver |-> ver, level |-> level]

NoRd == [chunks |-> <<>>, avail |-> 0, expected |-> NONE]

NoRes == [op |-> "none", arg |-> 0, exc |-> "none", tag |-> "", val |-> "None",
          data |-> <<>>, probes |-> <<>>, nfault |-> 0, accept |-> FALSE]

\* what a finished call leaves: transport, device, driver, the call's log and result
Commit(op, arg, r) ==
    /\ pc = "idle"
    /\ pc' = "returned"
    /\ dev_mode' = r.w.mode
    /\ dev_rx' = r.w.dev_rx
    /\ in_buf' = r.w.in_buf
    /\ timeout' = r.w.timeout
    /\ io' = r.w.io
    /\ gpio' = r.w.g
    /\ res' = [op |-> op, arg |-> arg, exc |-> r.exc, tag |-> r.tag, val |-> r.val,
               data |-> r.data, probes |-> r.w.probes, nfault |-> r.w.nfault,
               accept |-> r.w.accept]
    /\ toggles' = IF op = "new_gpio" /\ r.exc = "none" THEN 0
                  ELSE IF op = "toggle" /\ r.exc = "none"
                          /\ toggles # NONE /\ toggles < MaxToggles THEN toggles + 1
                  ELSE NONE
    /\ UNCHANGED << handle, prev, rd >>

Init ==
    /\ handle \in { "open", "closed", "not_serial" }
    /\ dev_mode \in { "t", "b" }
    /\ dev_rx = <<>>
    /\ in_buf = <<>>
    /\ timeout = 1
    /\ gpio = NoGPIO
    /\ io = <<>>
    /\ rd = NoRd
    /\ pc = "idle"
    /\ prev = "none"
    /\ res = NoRes
    /\ toggles = NONE

\* GPIO(serial_instance, gpio_pin): the program builds its driver once (a
\* construction that raised can be tried again)
NewGPIO ==
    /\ ~gpio.exists
    /\ \E pin \in PinIds, f \in Faults(1), accept \in BOOLEAN :
        Commit("new_gpio", pin, gpio_init(World(f, accept, VersionGood, 0), pin))

SetDirection ==
    /\ gpio.exists
    /\ \E v \in SetterValues, f \in Faults(1) :
        Commit("direction", v, direction(World(f, FALSE, VersionGood, 0), v))

SetPull ==
    /\ gpio.exists
    /\ \E v \in SetterValues, f \in Faults(1) :
        Commit("pull", v, pull(World(f, FALSE, VersionGood, 0), v))

SetStatus ==
    /\ gpio.exists
    /\ \E v \in SetterValues, f \in Faults(1) :
        Commit("status", v, status(World(f, FALSE, VersionGood, 0), v))

Toggle ==
    /\ gpio.exists
    /\ \E f \in Faults(1) :
        Commit("toggle", 0, toggle(World(f, FALSE, VersionGood, 0)))

Read ==
    /\ gpio.exists
    /\ \E f \in Faults(1), level \in { 0, 1 } :
        Commit("read", 0, read(World(f, FALSE, VersionGood, level)))

DetectCurrentMode ==
    /\ pc = "idle"
    /\ \E f \in Faults(1), ver \in Versions :
        Commit("detect_current_mode", 0, detect_current_mode(World(f, FALSE, ver, 0)))

EnsureBinaryMode ==
    /\ pc = "idle"
    /\ \E f \in Faults(1), accept \in BOOLEAN :
        Commit("ensure_binary_mode", 0, ensure_binary_mode(World(f, accept, VersionGood, 0)))

GetOctowireVersion ==
    /\ pc = "idle"
    /\ \E f \in Faults(MaxFaultAt), accept \in BOOLEAN :
        Commit("get_octowire_version", 0,
               get_octowire_version(World(f, accept, VersionGood, 0)))

IsConnected ==
    /\ pc = "idle"
    /\ \E f \in Faults(MaxFaultAt), accept \in BOOLEAN, ver \in Versions :
        Commit("is_connected", 0, is_connected(World(f, accept, ver, 0)))

\* the caller takes the result of the call and goes on
Return ==
    /\ pc = "returned"
    /\ pc' = "idle"
    /\ prev' = IF res.op = "ensure_binary_mode" /\ res.exc = "none" /\ res.val = "True"
               THEN "ensure_binary_mode" ELSE "none"
    /\ res' = NoRes
    /\ io' = <<>>
    /\ UNCHANGED << handle, dev_mode, dev_rx, in_buf, timeout, gpio, rd, toggles >>

Next ==
    \/ Return
    \/ NewGPIO
    \/ SetDirection
    \/ SetPull
    \/ SetStatus
    \/ Toggle
    \/ Read
    \/ DetectCurrentMode
    \/ EnsureBinaryMode
    \/ GetOctowireVersion
    \/ IsConnected

Spec == Init /\ [][Next]_vars

(***************************************************************************)
(* _read_data on its own: the device has sent the chunks rd.chunks (chunk  *)
(* j declares rd.chunks[j] bytes and carries the bytes 16j+1, 16j+2, ...)  *)
(* of which only the first rd.avail bytes arrive before the reads time     *)
(* out, and the engine calls _read_data(rd.expected).                      *)
(***************************************************************************)
ChunkData(j, n) == [i \in 1..n |-> 16 * j + i]

RECURSIVE Stream(_, _)
Stream(cs, j) ==
    IF j > Len(cs) THEN <<>>
    ELSE LE32(cs[j]) \o ChunkData(j, cs[j]) \o Stream(cs, j + 1)

ChunkLists == UNION { [1..n -> 0..MaxChunkSize] : n \in 0..MaxChunks }

ExpectedSizes == { NONE } \cup 0..MaxExpected

InitRead ==
    /\ handle = "open"
    /\ dev_mode = "b"
    /\ dev_rx = <<>>
    /\ timeout = 1
    /\ gpio = NoGPIO
    /\ io = <<>>
    /\ pc = "idle"
    /\ prev = "none"
    /\ res = NoRes
    /\ toggles = NONE
    /\ \E cs \in ChunkLists, e \in ExpectedSizes :
          \E a \in 0..Len(Stream(cs, 1)) :
             /\ rd = [chunks |-> cs, avail |-> a, expected |-> e]
             /\ in_buf = Take(Stream(cs, 1), a)

ReadData ==
    /\ rd # NoRd
    /\ Commit("read_data", rd.expected,
              read_data(World([fk |-> "none", fat |-> 0], FALSE, VersionGood, 0),
                        rd.expected, "read data"))

NextRead == ReadData

SpecRead == InitRead /\ [][NextRead]_vars

(***************************************************************************)
(* _read_response_code on its own: a frame has been written, the bytes of  *)
(* in_buf have come back, and the engine calls _read_response_code with    *)
(* disable_timeout set or not, under any read timeout.                     *)
(***************************************************************************)
Timeouts == { NONE } \cup 0..MaxTimeout

WaitingBytes == UNION { [1..n -> { 0, 1 }] : n \in 0..MaxWaiting }

InitStatus ==
    /\ handle \in { "open", "closed" }
    /\ dev_mode = "b"
    /\ dev_rx = <<>>
    /\ in_buf \in WaitingBytes
    /\ timeout \in Timeouts
    /\ gpio = NoGPIO
    /\ io = <<>>
    /\ rd = NoRd
    /\ pc = "idle"
    /\ prev = "none"
    /\ res = NoRes
    /\ toggles = NONE

\* a read without timeout on an empty buffer does not return, so the call
\* has no outcome
ReadResponseCode ==
    \E disable_timeout \in BOOLEAN :
        /\ ~(handle = "open" /\ in_buf = <<>> /\ (disable_timeout \/ timeout = NONE))
        /\ Commit("read_response_code", IF disable_timeout THEN 1 ELSE 0,
                  read_response_code(World([fk |-> "none", fat |-> 0], FALSE, VersionGood, 0),
                                     "read status", disable_timeout))

NextStatus ==
    \/ ReadResponseCode
    \/ Return

SpecStatus == InitStatus /\ [][NextStatus]_vars

(***************************************************************************)
(* Properties.                                                             *)
(***************************************************************************)
\* the data of the writes of a log, in order
RECURSIVE Writes(_)
Writes(log) ==
    IF log = <<>> THEN <<>>
    ELSE IF log[1].k = "w" THEN << log[1].data >> \o Writes(Tail(log))
    ELSE Writes(Tail(log))

\* the version frame or a GPIO frame
IsCommandFrame(d) ==
    \/ d = VersionOpcode
    \/ Len(d) = 5 /\ Take(d, 2) = LE16(2) /\ d[3] = OPCODE

CountOf(seq, x) == Cardinality({ i \in 1..Len(seq) : seq[i] = x })

\* C1: a version frame or a GPIO frame is written only while the device is in
\* Binary mode (stated as claimed; get_octowire_version breaks it)
C1_CommandFramesOnlyInBinaryMode ==
    \A i \in 1..Len(io) :
        (io[i].k = "w" /\ IsCommandFrame(io[i].data)) => io[i].mode = "b"

\* C2: ensure_binary_mode probes once; on Binary it returns True and never
\* writes "binmode"; on Text it writes "binmode" once, reads the whole echo,
\* probes once more and returns True exactly when that probe says Binary
C2_EnsureBinaryModeStateMachine ==
    res.op = "ensure_binary_mode" =>
        LET nbin == CountOf(Writes(io), BinmodeOpcode) IN
        /\ Len(res.probes) <= 2
        /\ res.probes = <<>> => (res.exc # "none" /\ nbin = 0)
        /\ (res.probes # <<>> /\ res.probes[1] = "b") =>
              /\ Len(res.probes) = 1
              /\ res.exc = "none" /\ res.val = "True"
              /\ nbin = 0
        /\ (res.probes # <<>> /\ res.probes[1] = "t") =>
              /\ nbin = 1
              /\ Len(io) >= 5
              /\ io[3] = [k |-> "w", data |-> BinmodeOpcode, mode |-> "t"]
              /\ io[4].k = "r" /\ io[4].data = BinmodeOpcode
              /\ io[5].k = "w" /\ io[5].data = ProbeByte
              /\ Len(res.probes) = 1 => res.exc # "none"
              /\ Len(res.probes) = 2 =>
                    /\ res.exc = "none"
                    /\ res.val \in { "True", "False" }
                    /\ res.val = "True" <=> res.probes[2] = "b"
              /\ (res.accept /\ res.nfault = 0) => res.val = "True"

C2_Witness ==
    /\ res.op = "ensure_binary_mode"
    /\ res.probes = << "t", "b" >>
    /\ res.val = "True"

\* C3: a call of ensure_binary_mode right after one that returned True
\* succeeds, writes nothing but the probe byte and the sentinel of its one mode
\* detection (nothing for the outer check, no "binmode"), and leaves the
\* device, the receive buffer, the timeout and the driver as they were
C3_EnsureBinaryModeIdempotent ==
    [][ (/\ pc = "idle"
         /\ prev = "ensure_binary_mode"
         /\ res'.op = "ensure_binary_mode"
         /\ res'.nfault = 0)
        => (/\ dev_mode = "b"
            /\ res'.exc = "none" /\ res'.val = "True"
            /\ Writes(io') = << ProbeByte, Sentinel >>
            /\ dev_mode' = dev_mode
            /\ dev_rx' = dev_rx
            /\ in_buf' = in_buf
            /\ timeout' = timeout
            /\ gpio' = gpio) ]_vars

C3_Witness ==
    /\ pc = "returned"
    /\ prev = "ensure_binary_mode"
    /\ res.op = "ensure_binary_mode"
    /\ res.nfault = 0
    /\ res.val = "True"

\* C4: constructing the driver with a pin id outside 0..15 raises the
\* invalid-argument error before any transport I/O (stated as claimed; the
\* code's test lets 16 and -1 through)
C4_InvalidPinRejectedBeforeIO ==
    (res.op = "new_gpio" /\ res.arg \notin 0..15) =>
        (res.exc = "ValueError" /\ res.tag = "gpio_pin" /\ io = <<>>)

\* C5: with a pin id in 0..15 the construction negotiates the mode and succeeds
\* exactly when the negotiation does (its last probe says Binary); it succeeds
\* whenever the device ends in Binary mode and has answered every frame as it
\* should, and after a success the device is in Binary mode and the driver
\* holds the pin
C5_ValidPinConstruction ==
    (res.op = "new_gpio" /\ res.arg \in 0..15) =>
        /\ handle = "open" => (io # <<>> /\ io[1].k = "w" /\ io[1].data = ProbeByte)
        /\ res.exc = "none" <=>
              (res.probes # <<>> /\ res.probes[Len(res.probes)] = "b")
        /\ res.exc = "none" => (handle = "open" /\ dev_mode = "b")
        /\ (handle = "open" /\ dev_mode = "b" /\ res.nfault = 0) => res.exc = "none"
        /\ res.exc = "none" => (gpio.exists /\ gpio.gpio_pin = res.arg)
        /\ res.exc # "none" => ~gpio.exists

C5_Witness ==
    /\ res.op = "new_gpio"
    /\ res.arg \in 1..14
    /\ res.exc = "none"
    /\ res.probes = << "t", "b" >>
    /\ dev_mode = "b"

\* C6: is_connected never raises: it returns True or False (stated as claimed;
\* a failed probe raises, and so does a version query that yields no string)
C6_IsConnectedNeverRaises ==
    res.op = "is_connected" => (res.exc = "none" /\ res.val \in { "True", "False" })

\* the operation name a GPIO call passes to _send_operation_code; g is the
\* driver before the call
OperationName(op, arg, g) ==
    CASE op = "direction" /\ arg = 0 -> "set GPIO pin as output"
      [] op = "direction" /\ arg = 1 -> "set GPIO pin as input"
      [] op = "pull" /\ arg = NONE -> "GPIO pull disable"
      [] op = "pull" /\ arg = 0 -> "GPIO set pull-up"
      [] op = "pull" /\ arg = 1 -> "GPIO set pull-down"
      [] op = "status" /\ arg = 0 -> "Set GPIO pin to low"
      [] op = "status" /\ arg = 1 -> "Set GPIO pin to high"
      [] op = "toggle" /\ g.pin_status = 0 -> "Set GPIO pin to high"
      [] op = "toggle" /\ g.pin_status # 0 -> "Set GPIO pin to low"
      [] op = "read" -> "GPIO read input pin"
      [] OTHER -> "?"

GPIOCalls == { "direction", "pull", "status", "toggle", "read" }

\* the call read a status byte, and it was not 0x00
BadStatus(log) ==
    \E i \in 1..Len(log) : log[i].k = "r" /\ Len(log[i].data) = 1 /\ log[i].data # << 0 >>
                             /\ \A j \in 1..(i - 1) : log[j].k = "w"

\* C7: a GPIO call whose status byte is not 0x00 raises the error that names
\* its operation and leaves direction_status, pull_status and pin_status alone
C7_BadStatusFailsWithoutCacheChange ==
    [][ (res'.op \in GPIOCalls /\ BadStatus(io'))
        => (/\ res'.exc = "Exception"
            /\ res'.tag = OperationName(res'.op, res'.arg, gpio)
            /\ gpio' = gpio) ]_vars

C7_Witness ==
    /\ res.op = "direction"
    /\ BadStatus(io)
    /\ res.exc = "Exception"
    /\ res.tag = "set GPIO pin as output"
    /\ gpio.direction_status = NONE

\* sum of the first k declared sizes
RECURSIVE SizeSum(_, _)
SizeSum(cs, k) == IF k = 0 THEN 0 ELSE cs[k] + SizeSum(cs, k - 1)

\* the first k chunks' data, concatenated
RECURSIVE Concat(_, _)
Concat(cs, k) == IF k = 0 THEN <<>> ELSE Concat(cs, k - 1) \o ChunkData(k, cs[k])

\* the chunks _read_data(e) is to read: up to the first one at which the
\* declared sizes reach e; one chunk when no size is expected; 0 if there are
\* not that many chunks
ChunksWanted(cs, e) ==
    IF e = NONE \/ e = 0 THEN (IF Len(cs) >= 1 THEN 1 ELSE 0)
    ELSE IF \E k \in 1..Len(cs) : SizeSum(cs, k) >= e
         THEN CHOOSE k \in 1..Len(cs) :
                 SizeSum(cs, k) >= e /\ \A m \in 1..(k - 1) : SizeSum(cs, m) < e
         ELSE 0

\* the chunks 1..k are non-empty and have arrived whole
Arrived(k) ==
    /\ \A j \in 1..k : rd.chunks[j] > 0
    /\ rd.avail >= 4 * k + SizeSum(rd.chunks, k)

\* C8: _read_data returns the chunks it is to read, whole and in order, and
\* reads nothing beyond them; an overshooting last chunk is returned whole
C8_ReadDataConcatenatesChunks ==
    res.op = "read_data" =>
        LET k == ChunksWanted(rd.chunks, rd.expected) IN
        (k > 0 /\ Arrived(k)) =>
            /\ res.exc = "none"
            /\ res.data = Concat(rd.chunks, k)
            /\ Len(io) = 2 * k
            /\ in_buf = Drop(Take(Stream(rd.chunks, 1), rd.avail),
                             4 * k + SizeSum(rd.chunks, k))

C8_Witness ==
    /\ res.op = "read_data"
    /\ rd.chunks = << 4, 6 >>
    /\ rd.expected = 10
    /\ res.exc = "none"
    /\ res.data = << 17, 18, 19, 20, 33, 34, 35, 36, 37, 38 >>

\* C9: a data read that returns zero bytes makes the call fail: the size
\* prefix or the chunk in _read_data, the pin level in GPIO.read after a
\* status of 0x00 (stated as claimed; GPIO.read returns the empty bytes)
C9_EmptyReadFails ==
    /\ (res.op = "read_data" /\ io # <<>> /\ io[Len(io)].data = <<>>) => res.exc = "Exception"
    /\ (res.op = "read" /\ Len(io) = 3 /\ io[2].data = << 0 >> /\ io[3].data = <<>>)
          => res.exc # "none"

\* C10: a chunk read that returns at least one byte but fewer than the chunk
\* declares makes _read_data fail (stated as claimed; the short chunk is
\* returned as the payload)
C10_ShortChunkFails ==
    (res.op = "read_data"
     /\ \E i \in 1..Len(io) :
           /\ i % 2 = 0
           /\ Len(io[i - 1].data) = 4
           /\ io[i].data # <<>>
           /\ Len(io[i].data) < FromLE(io[i - 1].data))
    => res.exc # "none"

\* the command frame the driver g sends for an operation code
GPIOFrame(g, operation_code) == LE16(2) \o << OPCODE, g.gpio_pin, operation_code >>

C12_ToggleAlternates ==
    [][ (res'.op = "toggle" /\ res'.exc = "none")
        => (/\ gpio.pin_status \in { 0, 1 }
            /\ gpio.pin_status = 0 =>
                  /\ Writes(io') = << GPIOFrame(gpio, OPERATION_SET_PIN_HIGH) >>
                  /\ gpio'.pin_status = 1
            /\ gpio.pin_status = 1 =>
                  /\ Writes(io') = << GPIOFrame(gpio, OPERATION_SET_PIN_LOW) >>
                  /\ gpio'.pin_status = 0
            /\ toggles' # NONE =>
                  /\ toggles' >= 1
                  /\ gpio'.pin_status = toggles' % 2
                  /\ Writes(io') =
                        << GPIOFrame(gpio, IF toggles' % 2 = 1 THEN OPERATION_SET_PIN_HIGH
                                           ELSE OPERATION_SET_PIN_LOW) >>) ]_vars

C12_Witness ==
    /\ res.op = "toggle"
    /\ res.exc = "none"
    /\ toggles = 2
    /\ gpio.pin_status = 0
    /\ Writes(io) = << << 2, 0, 8, gpio.gpio_pin, 7 >> >>

\* the operation code the pull setter is to send for a legal value
PullOperation(value) ==
    CASE value = NONE -> OPERATION_DEACTIVATE_PULL
      [] value = PULL_UP -> OPERATION_PULLUP
      [] value = PULL_DOWN -> OPERATION_PULLDOWN

\* C13: a pull set given None, 0 or 1 writes at most one frame, and no frame
\* but the one of its value ('deactivate pull' for None, pull-up for 0,
\* pull-down for 1); when it succeeds it has written exactly that frame and
\* pull_status is the value given
C13_PullSendsOneFrame ==
    (res.op = "pull" /\ res.arg \in { NONE, PULL_UP, PULL_DOWN }) =>
        /\ Len(Writes(io)) <= 1
        /\ \A i \in 1..Len(io) :
              io[i].k = "w" => io[i].data = GPIOFrame(gpio, PullOperation(res.arg))
        /\ res.exc = "none" =>
              /\ Writes(io) = << GPIOFrame(gpio, PullOperation(res.arg)) >>
              /\ gpio.pull_status = res.arg

C13_Witness ==
    /\ res.op = "pull"
    /\ res.arg = NONE
    /\ res.exc = "none"
    /\ gpio.pull_status = NONE
    /\ Writes(io) = << << 2, 0, 8, gpio.gpio_pin, 5 >> >>

\* the values a setter takes
LegalValues(op) == IF op = "pull" THEN { PULL_UP, PULL_DOWN, NONE } ELSE { 0, 1 }

\* C14: a direction, pull or status set given a value that is not one of the
\* setter's legal values raises the invalid-argument error of that setter,
\* writes and reads nothing, and leaves the driver's caches, the device and
\* the transport as they were
C14_IllegalValueRejectedBeforeIO ==
    [][ (res'.op \in { "direction", "pull", "status" } /\ res'.arg \notin LegalValues(res'.op))
        => (/\ res'.exc = "ValueError"
            /\ res'.tag = res'.op
            /\ io' = <<>>
            /\ gpio' = gpio
            /\ dev_mode' = dev_mode
            /\ dev_rx' = dev_rx
            /\ in_buf' = in_buf) ]_vars

C14_Witness ==
    /\ res.op = "status"
    /\ res.arg = 2
    /\ res.exc = "ValueError"
    /\ io = <<>>
    /\ gpio.pin_status = 1

\* "w" or "r" for each entry of a log
Kinds(log) == [i \in 1..Len(log) |-> log[i].k]

\* the operations C15 names
C15_Operations == { "detect_current_mode", "ensure_binary_mode", "get_octowire_version" }
                     \cup GPIOCalls

\* C15 as claimed: an operation that returns has made exactly one write,
\* its first transfer, and one or more reads after it (detect_current_mode on
\* a device in Binary mode writes twice)
C15_OneWriteThenReads ==
    (res.op \in C15_Operations /\ res.exc = "none") =>
        /\ Len(io) >= 2
        /\ io[1].k = "w"
        /\ \A i \in 2..Len(io) : io[i].k = "r"

\* C15, amended: a GPIO command that returns has made exactly one write
\* followed by one or more reads; detect_current_mode has made one write and
\* one read when it answers Text, and two writes followed by three reads when
\* it answers Binary; ensure_binary_mode has begun with the write of the
\* probe byte, ended with a read and made two to four writes;
\* get_octowire_version has either touched nothing (the handle is no serial
\* port) or begun with the probe byte, ended with a read and made five to
\* seven writes
C15_WritesThenReads ==
    res.exc = "none" =>
        /\ res.op \in GPIOCalls =>
              /\ Len(io) \in { 2, 3 }
              /\ io[1].k = "w"
              /\ \A i \in 2..Len(io) : io[i].k = "r"
        /\ res.op = "detect_current_mode" =>
              /\ res.val = "t" => Kinds(io) = << "w", "r" >>
              /\ res.val = "b" => Kinds(io) = << "w", "w", "r", "r", "r" >>
        /\ res.op = "ensure_binary_mode" =>
              /\ io # <<>> /\ io[1].k = "w" /\ io[1].data = ProbeByte
              /\ io[Len(io)].k = "r"
              /\ Len(Writes(io)) \in 2..4
        /\ res.op = "get_octowire_version" =>
              \/ io = <<>> /\ handle = "not_serial"
              \/ /\ io # <<>> /\ io[1].k = "w" /\ io[1].data = ProbeByte
                 /\ io[Len(io)].k = "r"
                 /\ Len(Writes(io)) \in 5..7

C15_Witness ==
    /\ res.op = "detect_current_mode"
    /\ res.exc = "none"
    /\ res.val = "b"
    /\ Writes(io) = << ProbeByte, Sentinel >>
    /\ Len(io) = 5

\* C16: detect_current_mode on an open port writes the probe byte first.  When
\* it answers Text it has read every byte that was waiting, in one read, and
\* written nothing more; when it answers Binary it has then written the
\* sentinel and read a status byte 0x00, a four-byte size and a chunk of the
\* bytes the size declares, and nothing else.  Its answer is the mode of the
\* device, and it does answer when the device responds to every frame as it
\* should
C16_DetectCurrentMode ==
    (res.op = "detect_current_mode" /\ handle = "open") =>
        /\ io # <<>>
        /\ io[1] = [k |-> "w", data |-> ProbeByte, mode |-> dev_mode]
        /\ res.nfault = 0 => res.exc = "none"
        /\ res.exc = "none" =>
              /\ res.val \in { "t", "b" }
              /\ res.val = dev_mode
              /\ res.val = "t" =>
                    /\ Len(io) = 2
                    /\ io[2].k = "r" /\ io[2].data # <<>>
                    /\ in_buf = <<>>
              /\ res.val = "b" =>
                    /\ Len(io) = 5
                    /\ io[2].k = "w" /\ io[2].data = Sentinel
                    /\ io[3].k = "r" /\ io[3].data = << 0 >>
                    /\ io[4].k = "r" /\ Len(io[4].data) = 4
                    /\ io[5].k = "r" /\ io[5].data # <<>>
                    /\ Len(io[5].data) <= FromLE(io[4].data)
                    /\ res.nfault = 0 =>
                          (Len(io[5].data) = FromLE(io[4].data) /\ in_buf = <<>>)

C16_Witness ==
    /\ res.op = "detect_current_mode"
    /\ res.exc = "none"
    /\ res.val = "t"
    /\ dev_mode = "t"
    /\ io = << [k |-> "w", data |-> ProbeByte, mode |-> "t"],
               [k |-> "r", data |-> ProbeByte, mode |-> "t"] >>

\* the bytes a call wrote while the device was in Binary mode, in order
RECURSIVE BinaryWrites(_)
BinaryWrites(log) ==
    IF log = <<>> THEN <<>>
    ELSE IF log[1].k = "w" /\ log[1].mode = "b" THEN log[1].data \o BinaryWrites(Tail(log))
    ELSE BinaryWrites(Tail(log))

\* bytes cut into frames of two size bytes, an opcode and as many argument
\* bytes as the size says; bytes at the end that make no whole frame show as
\* an empty frame
RECURSIVE WholeFrames(_)
WholeFrames(bs) ==
    IF bs = <<>> THEN <<>>
    ELSE IF Len(bs) < 3 \/ Len(bs) < 3 + FromLE(Take(bs, 2)) THEN << <<>> >>
    ELSE << Take(bs, 3 + FromLE(Take(bs, 2))) >>
            \o WholeFrames(Drop(bs, 3 + FromLE(Take(bs, 2))))

\* C17: the bytes a call writes to a device in Binary mode are whole frames,
\* each one of: the probe byte and the sentinel (size 10, opcode 2, ten zero
\* bytes), the version frame (size 0, opcode 2, no argument), a GPIO frame
\* (size 2, opcode 8, the driver's pin id and an operation code); a mode
\* detection writes the first only, a GPIO command the last only
C17_BinaryWritesAreWholeFrames ==
    LET fs == WholeFrames(BinaryWrites(io)) IN
    /\ \A i \in 1..Len(fs) :
          /\ Len(fs[i]) >= 3
          /\ FromLE(Take(fs[i], 2)) = Len(fs[i]) - 3
          /\ \/ fs[i] = << 10, 0, 2, 0, 0, 0, 0, 0, 0, 0, 0, 0, 0 >>
             \/ fs[i] = << 0, 0, 2 >>
             \/ /\ Len(fs[i]) = 5
                /\ Take(fs[i], 3) = << 2, 0, 8 >>
                /\ gpio.exists /\ fs[i][4] = gpio.gpio_pin
                /\ fs[i][5] \in OPERATION_OUTPUT..OPERATION_READ_PIN
    /\ res.op \in { "detect_current_mode", "ensure_binary_mode", "new_gpio" } =>
          \A i \in 1..Len(fs) : fs[i] = ProbeByte \o Sentinel
    /\ res.op \in GPIOCalls => \A i \in 1..Len(fs) : Len(fs[i]) = 5

C17_Witness ==
    /\ res.op = "get_octowire_version"
    /\ WholeFrames(BinaryWrites(io)) =
          << ProbeByte \o Sentinel, ProbeByte \o Sentinel, VersionOpcode >>
    /\ Len(Writes(io)) = 5

\* C18: between calls and when a call has returned, the receive buffer holds
\* no unread byte and the device holds no part of a frame; hence whatever a
\* call reads right after writing the probe byte is the echo of that probe
\* from a device in Text mode, and nothing else.  (In the model this holds
\* after failed calls too: a faulty response is a shortened one.)
C18_StreamInSync ==
    /\ in_buf = <<>>
    /\ dev_rx = <<>>
    /\ \A i \in 1..(Len(io) - 1) :
          (io[i].k = "w" /\ io[i].data = ProbeByte /\ io[i + 1].k = "r")
             => (io[i].mode = "t" /\ io[i + 1].data = ProbeByte)

C18_Witness ==
    /\ res.op = "read"
    /\ res.exc = "none"
    /\ res.nfault = 0
    /\ res.data = << 1 >>
    /\ gpio.direction_status = 0
    /\ in_buf = <<>>
    /\ dev_rx = <<>>

\* C19: _read_data with an expected size E > 0 ends after at most E chunks,
\* that is at most 2E reads, a size and a chunk in turn; a chunk that declares
\* 0 bytes makes it raise, and every chunk it takes has at least one byte
C19_ReadDataLoopBounded ==
    (res.op = "read_data" /\ rd.expected # NONE /\ rd.expected > 0) =>
        /\ Len(io) <= 2 * rd.expected
        /\ \A i \in 1..Len(io) :
              /\ io[i].k = "r"
              /\ (i % 2 = 1 /\ io[i].data = LE32(0)) =>
                    (res.exc = "Exception" /\ Len(io) = i + 1 /\ io[i + 1].data = <<>>)
              /\ (i % 2 = 0 /\ (i < Len(io) \/ res.exc = "none")) =>
                    (io[i].data # <<>> /\ FromLE(io[i - 1].data) >= 1)

C19_Witness ==
    /\ res.op = "read_data"
    /\ rd.expected = 2
    /\ rd.chunks = << 1, 1 >>
    /\ res.exc = "none"
    /\ Len(io) = 4

\* C20: when _read_response_code returns, or raises the operation error, the
\* read timeout is what it was before the call, with disable_timeout set or
\* not; the driver, the device and the handle are untouched and one byte at
\* most has left the receive buffer
C20_ReadResponseCodeKeepsTimeout ==
    [][ (res'.op = "read_response_code" /\ res'.exc \in { "none", "Exception" })
        => (/\ timeout' = timeout
            /\ res'.exc = "none" <=> (in_buf # <<>> /\ in_buf[1] = 0)
            /\ in_buf' = Drop(in_buf, 1)
            /\ gpio' = gpio /\ dev_mode' = dev_mode /\ dev_rx' = dev_rx
            /\ handle' = handle) ]_vars

C20_Witness ==
    /\ res.op = "read_response_code"
    /\ res.arg = 1
    /\ res.exc = "Exception"
    /\ timeout = 2
    /\ Len(io) = 1 /\ io[1].data = << 1 >>

====
